---- MODULE Spec2Model ----
(***************************************************************************)
(* The LLM-driven style-patch engine of maputnik (src/libs/style-chat.ts)  *)
(* with its dev proxy (vite-plugin-anthropic-proxy.ts).                    *)
(*                                                                         *)
(* JSON values are tagged records [t, v]:                                  *)
(*   "obj"  v = function from keys to JSON values                          *)
(*   "arr"  v = sequence of JSON values                                    *)
(*   "str"  v = an opaque string                                           *)
(*   "ptr"  v = a string read as a JSON Pointer: the sequence of segments  *)
(*              that follow each "/" ("" is <<>>, "/" is <<"">>)           *)
(*   "txt"  v = a string read as text: a sequence of characters (see text) *)
(*   "null", "undefined"                                                   *)
(***************************************************************************)
EXTENDS Integers, Sequences, FiniteSets, TLC

\* ------------------------------------------------------------------ bounds

\* Longest patch (number of operations) the model replies with.
MaxPatchLen == 2

\* Longest conversation history a caller passes to editStyleWithLLM.
MaxHistory == 8

\* The most messages the panel's conversation holds when an edit starts.
MaxTurns == 4

\* The most chunks the body of a request to the proxy arrives in.
MaxChunks == 2

\* ------------------------------------------------------------- JSON values

Undefined == [t |-> "undefined", v |-> ""]
Null == [t |-> "null", v |-> ""]
Str(s) == [t |-> "str", v |-> s]
Ptr(segs) == [t |-> "ptr", v |-> segs]
Txt(toks) == [t |-> "txt", v |-> toks]
Arr(s) == [t |-> "arr", v |-> s]
Obj(f) == [t |-> "obj", v |-> f]
EmptyObj == Obj([k \in {} |-> Undefined])

\* const x = e; F(x): the value of an expression e, bound once.
With(e, F(_)) == F(e)

\* typeof x === "string"
IsString(x) == x.t \in {"str", "ptr", "txt"}
\* x !== null && typeof x === "object"
IsObject(x) == x.t \in {"obj", "arr"}
\* Array.isArray(x)
IsArray(x) == x.t = "arr"
\* JS truthiness of a JSON value (no numbers or booleans are modelled).
Truthy(x) ==
    CASE x.t \in {"undefined", "null"} -> FALSE
      [] x.t = "str" -> x.v # ""
      [] x.t \in {"ptr", "txt"} -> x.v # <<>>
      [] OTHER -> TRUE

\* The decimal numerals of array indices, numeral i+1 spelling i.
Numerals == <<"0", "1", "2", "3", "4", "5", "6", "7", "8", "9">>
\* fast-json-patch isInteger(str) and /^\d+$/ on one-digit numerals.
isInteger(s) == \E i \in DOMAIN Numerals : Numerals[i] = s
\* ~~key
ToInt(s) == (CHOOSE i \in DOMAIN Numerals : Numerals[i] = s) - 1
\* String(index)
ToNumeral(i) == Numerals[i + 1]

\* JS obj[key] for a string key: own properties of objects, elements of arrays.
Get(obj, key) ==
    CASE obj.t = "obj" -> IF key \in DOMAIN obj.v THEN obj.v[key] ELSE Undefined
      [] obj.t = "arr" -> IF isInteger(key) /\ ToInt(key) < Len(obj.v)
                          THEN obj.v[ToInt(key) + 1]
                          ELSE Undefined
      [] OTHER -> Undefined

\* obj[key] = value on an object
SetKey(obj, key, value) ==
    Obj([k \in (DOMAIN obj.v) \cup {key} |-> IF k = key THEN value ELSE obj.v[k]])
\* delete obj[key]
DeleteKey(obj, key) ==
    Obj([k \in (DOMAIN obj.v) \ {key} |-> obj.v[k]])
\* arr.splice(i, 0, value), 0 <= i <= length
SpliceIn(arr, i, value) ==
    Arr(SubSeq(arr.v, 1, i) \o <<value>> \o SubSeq(arr.v, i + 1, Len(arr.v)))
\* arr.splice(i, 1), 0 <= i < length
SpliceOut(arr, i) ==
    Arr(SubSeq(arr.v, 1, i) \o SubSeq(arr.v, i + 2, Len(arr.v)))
\* arr[i] = value, 0 <= i < length
SetIndex(arr, i, value) == Arr([arr.v EXCEPT ![i + 1] = value])

\* --------------------------------------------- JSON Pointer segment escapes

\* The escaped segments that occur in the modelled patches, with their decoding
\* s.replace(/~1/g, "/").replace(/~0/g, "~").
EscapedSegments == ("a~1b" :> "a/b") @@ ("~01" :> "~1")
unescapePathComponent(s) ==
    IF s \in DOMAIN EscapedSegments THEN EscapedSegments[s] ELSE s

\* --------------------------------------------------------- fast-json-patch

\* The operations objOps defines.
objOpsNames == {"add", "remove", "replace", "move", "copy", "test", "_get"}
\* The operations the model applies (move, copy, test never occur in a reply).
AppliedOps == {"add", "remove", "replace"}

\* validator(operation, 0, document, existingPathFragment); hasDoc is FALSE for the
\* first call validator(operation, 0), epfLen is
\* existingPathFragment.split("/").length.  "" when the operation passes.
validator(operation, hasDoc, epfLen) ==
    LET op == Get(operation, "op")
        path == Get(operation, "path")
        pathLen == Len(path.v) + 1
    IN  IF operation.t # "obj" THEN "OPERATION_NOT_AN_OBJECT"
        ELSE IF ~(op.t = "str" /\ op.v \in objOpsNames) THEN "OPERATION_OP_INVALID"
        ELSE IF path.t # "ptr" THEN "OPERATION_PATH_INVALID"
        ELSE IF op.v \in {"add", "replace", "test"} /\ Get(operation, "value") = Undefined
             THEN "OPERATION_VALUE_REQUIRED"
        ELSE IF ~hasDoc THEN ""
        ELSE IF op.v = "add"
             THEN IF pathLen # epfLen + 1 /\ pathLen # epfLen
                  THEN "OPERATION_PATH_CANNOT_ADD" ELSE ""
        ELSE IF op.v \in {"replace", "remove", "_get"}
             THEN IF pathLen # epfLen THEN "OPERATION_PATH_UNRESOLVABLE" ELSE ""
        ELSE ""

\* objOps[op].call(operation, obj, key, document)
objOps(op, obj, key, value) ==
    CASE op = "add" -> SetKey(obj, key, value)
      [] op = "remove" -> DeleteKey(obj, key)
      [] op = "replace" -> SetKey(obj, key, value)

\* arrOps[op].call(operation, arr, i, document)
arrOps(op, arr, i, value) ==
    CASE op = "add" -> SpliceIn(arr, i, value)
      [] op = "remove" -> SpliceOut(arr, i)
      [] op = "replace" -> SetIndex(arr, i, value)

RECURSIVE applyAt(_, _, _, _)
\* The while(true) loop of applyOperation from key index t (keys[0] is the empty
\* string before the first "/"), obj being the container reached so far and epf
\* the split length of existingPathFragment (0: still undefined).
\* [err |-> "" or the error's name, obj |-> the container after the operation]
applyAt(obj, operation, t, epf) ==
    LET keys == Get(operation, "path").v
        len == Len(keys) + 1
        op == Get(operation, "op").v
        value == Get(operation, "value")
        key == unescapePathComponent(keys[t])
        found == Get(obj, key)
        epf1 == IF epf # 0 THEN epf
                ELSE IF found = Undefined THEN t
                ELSE IF t = len - 1 THEN len
                ELSE 0
        verr == IF epf = 0 /\ epf1 # 0 THEN validator(operation, TRUE, epf1) ELSE ""
        t1 == t + 1
        idx == IF key = "-" THEN Len(obj.v) ELSE ToInt(key)
        child == IF IsArray(obj)
                 THEN (IF idx < Len(obj.v) THEN obj.v[idx + 1] ELSE Undefined)
                 ELSE found
    IN  IF verr # "" THEN [err |-> verr, obj |-> obj]
        ELSE IF IsArray(obj) /\ key # "-" /\ ~isInteger(key)
             THEN [err |-> "OPERATION_PATH_ILLEGAL_ARRAY_INDEX", obj |-> obj]
        ELSE IF t1 >= len
             THEN IF IsArray(obj)
                  THEN IF op = "add" /\ idx > Len(obj.v)
                       THEN [err |-> "OPERATION_VALUE_OUT_OF_BOUNDS", obj |-> obj]
                       ELSE [err |-> "", obj |-> arrOps(op, obj, idx, value)]
                  ELSE [err |-> "", obj |-> objOps(op, obj, key, value)]
        ELSE IF ~IsObject(child)
             THEN [err |-> "OPERATION_PATH_UNRESOLVABLE", obj |-> obj]
        ELSE With(applyAt(child, operation, t1, epf1), LAMBDA r :
                IF r.err # "" THEN [err |-> r.err, obj |-> obj]
                ELSE [err |-> "",
                      obj |-> IF IsArray(obj) THEN SetIndex(obj, idx, r.obj)
                              ELSE SetKey(obj, key, r.obj)])

\* applyOperation(document, operation, true, true): document is mutated in place
\* unless the operation addresses the root, which only changes newDocument.
\* [err, doc |-> the object passed in, after the call, newDocument]
applyOperation(document, operation) ==
    LET v0 == validator(operation, FALSE, 0)
        op == Get(operation, "op").v
        keys == Get(operation, "path").v
    IN  IF v0 # "" THEN [err |-> v0, doc |-> document, newDocument |-> document]
        ELSE IF op \notin AppliedOps
             THEN [err |-> "UNMODELLED_OPERATION", doc |-> document, newDocument |-> document]
        ELSE IF keys = <<>>
             THEN [err |-> "", doc |-> document,
                   newDocument |-> IF op = "remove" THEN Null ELSE Get(operation, "value")]
        ELSE IF ~IsObject(document)
             THEN [err |-> "TypeError", doc |-> document, newDocument |-> document]
        ELSE With(applyAt(document, operation, 1, 0), LAMBDA r :
                [err |-> r.err, doc |-> r.obj, newDocument |-> r.obj])

RECURSIVE applyPatchFrom(_, _, _, _, _)
\* The for loop of applyPatch(document, patch, true, true) from operation i.
\* passed is the object the caller passed (mutated in place), document the loop's
\* variable, which is that same object while same holds and, after a root
\* operation, another value that later operations change instead.
\* [err |-> "" or the name of the error thrown, doc |-> the passed object after,
\*  newDocument |-> results.newDocument, the document the patch results in]
applyPatchFrom(passed, document, same, patch, i) ==
    IF i > Len(patch) THEN [err |-> "", doc |-> passed, newDocument |-> document]
    ELSE With(applyOperation(document, patch[i]), LAMBDA r :
            IF r.err # "" THEN [err |-> r.err, doc |-> passed, newDocument |-> Undefined]
            ELSE IF Get(patch[i], "path").v = <<>>
                 THEN applyPatchFrom(passed, r.newDocument, FALSE, patch, i + 1)
            ELSE IF same THEN applyPatchFrom(r.doc, r.doc, TRUE, patch, i + 1)
            ELSE applyPatchFrom(passed, r.doc, FALSE, patch, i + 1))

\* applyPatch(styleCopy, p, true, true) with p an array
applyPatch(document, patch) == applyPatchFrom(document, document, TRUE, patch, 1)

\* -------------------------------------------------------------------- text

(***************************************************************************)
(* A text (an HTTP body, the model's reply) is a sequence of characters    *)
(* [c, lvl, p].  c is the character's kind:                                *)
(*   "[" "]" "{" "}"   a bracket                                           *)
(*   "key"             a quoted member name and its colon, p the name      *)
(*   "str"             a quoted string without brackets, p its value       *)
(*   "null"            the literal null                                    *)
(*   "q(" "q)"         the quotes of a string literal that holds text; the *)
(*                     characters between them are that text, escaped      *)
(*   "w"               a word of prose;  " " white space                   *)
(* lvl counts the string literals the character lies in: 0 outside any,    *)
(* 1 for a character written with one level of escapes (\"), and so on.    *)
(***************************************************************************)
Ch(c) == [c |-> c, lvl |-> 0, p |-> ""]
ChKey(k) == [c |-> "key", lvl |-> 0, p |-> k]
ChStr(val) == [c |-> "str", lvl |-> 0, p |-> val]

\* The characters of text s written inside one more string literal.
Escape(s) == [i \in DOMAIN s |-> [s[i] EXCEPT !.lvl = @ + 1]]
\* The characters between the quotes of a string literal, unescaped.
Unescape(s) == [i \in DOMAIN s |-> [s[i] EXCEPT !.lvl = @ - 1]]

IsSpace(ch) == ch.c = " "

\* String.prototype.trim
RECURSIVE trimStart(_)
trimStart(s) == IF s # <<>> /\ IsSpace(s[1]) THEN trimStart(Tail(s)) ELSE s
RECURSIVE trimEnd(_)
trimEnd(s) ==
    IF s # <<>> /\ IsSpace(s[Len(s)]) THEN trimEnd(SubSeq(s, 1, Len(s) - 1)) ELSE s
MutantTrimKeepsAll(s) == s
trim(s) == trimEnd(trimStart(s))

\* text.slice(0, n)
MutantSliceKeepsAll(s, n) == s
slice0(s, n) == SubSeq(s, 1, IF Len(s) < n THEN Len(s) ELSE n)

\* The first index >= i of s that is not white space (Len(s) + 1 if none).
RECURSIVE skipSpace(_, _)
skipSpace(s, i) == IF i <= Len(s) /\ IsSpace(s[i]) THEN skipSpace(s, i + 1) ELSE i

\* ------------------------------------------------------------- JSON.parse

ParseError == [ok |-> FALSE, val |-> Undefined, next |-> 0]

\* The index of the first "q)" of level 0 at or after i (0 if none).
RECURSIVE closingQuote(_, _)
closingQuote(s, i) ==
    IF i > Len(s) THEN 0
    ELSE IF s[i].c = "q)" /\ s[i].lvl = 0 THEN i
    ELSE closingQuote(s, i + 1)

RECURSIVE parseValue(_, _)
RECURSIVE parseElements(_, _, _)
RECURSIVE parseMembers(_, _, _)
\* One JSON value of s from index i: [ok, val, next |-> the index after it].
\* A character of an escaped level outside a string literal is a syntax error.
parseValue(s, i0) ==
    LET i == skipSpace(s, i0)
    IN  IF i > Len(s) \/ s[i].lvl # 0 THEN ParseError
        ELSE CASE s[i].c = "str" -> [ok |-> TRUE, val |-> s[i].p, next |-> i + 1]
               [] s[i].c = "null" -> [ok |-> TRUE, val |-> Null, next |-> i + 1]
               [] s[i].c = "q(" ->
                    LET j == closingQuote(s, i + 1)
                    IN  IF j = 0 THEN ParseError
                        ELSE [ok |-> TRUE, val |-> Txt(Unescape(SubSeq(s, i + 1, j - 1))),
                              next |-> j + 1]
               [] s[i].c = "[" -> parseElements(s, i + 1, <<>>)
               [] s[i].c = "{" -> parseMembers(s, i + 1, EmptyObj)
               [] OTHER -> ParseError

\* The elements of an array up to its "]".
parseElements(s, i0, acc) ==
    LET i == skipSpace(s, i0)
    IN  IF i > Len(s) THEN ParseError
        ELSE IF s[i].c = "]" /\ s[i].lvl = 0
             THEN [ok |-> TRUE, val |-> Arr(acc), next |-> i + 1]
        ELSE With(parseValue(s, i), LAMBDA r :
                IF ~r.ok THEN ParseError
                ELSE parseElements(s, r.next, Append(acc, r.val)))

\* The members of an object up to its "}"; a repeated name keeps its last value.
parseMembers(s, i0, acc) ==
    LET i == skipSpace(s, i0)
    IN  IF i > Len(s) \/ s[i].lvl # 0 THEN ParseError
        ELSE IF s[i].c = "}" THEN [ok |-> TRUE, val |-> acc, next |-> i + 1]
        ELSE IF s[i].c # "key" THEN ParseError
        ELSE With(parseValue(s, i + 1), LAMBDA r :
                IF ~r.ok THEN ParseError
                ELSE parseMembers(s, r.next, SetKey(acc, s[i].p, r.val)))

\* JSON.parse(s): [ok |-> FALSE] stands for the SyntaxError thrown.
JSONparse(s) ==
    With(parseValue(s, 1), LAMBDA r :
        IF r.ok /\ skipSpace(s, r.next) > Len(s)
        THEN [ok |-> TRUE, val |-> r.val]
        ELSE [ok |-> FALSE, val |-> Undefined])

\* ------------------------------------------------- style-chat.ts: extraction

\* /\[\s*\{\s*\\?["']op["']/ matches at index i of s: "[", "{" and a quoted op,
\* the quotes bare or escaped once, with only white space between them.
startMatchAt(s, i) ==
    /\ s[i].c = "["
    /\ LET j == skipSpace(s, i + 1)
       IN  /\ j <= Len(s)
           /\ s[j].c = "{"
           /\ LET k == skipSpace(s, j + 1)
              IN  /\ k <= Len(s)
                  /\ s[k].c = "key"
                  /\ s[k].p = "op"
                  /\ s[k].lvl <= 1

\* The index of the "]" that brings the depth back to 0, counting from i with
\* the given depth (0 if the text ends first).
RECURSIVE matchingBracket(_, _, _)
matchingBracket(s, i, depth) ==
    IF i > Len(s) THEN 0
    ELSE IF s[i].c = "[" THEN matchingBracket(s, i + 1, depth + 1)
    ELSE IF s[i].c = "]"
         THEN IF depth - 1 = 0 THEN i ELSE matchingBracket(s, i + 1, depth - 1)
    ELSE matchingBracket(s, i + 1, depth)

\* extractPatchArrayFromText(raw): [found, str]; found FALSE stands for null.
extractPatchArrayFromText(raw) ==
    LET trimmed == trim(raw)
        starts == {i \in DOMAIN trimmed : startMatchAt(trimmed, i)}
    IN  IF starts = {} THEN [found |-> FALSE, str |-> <<>>]
        ELSE LET start == CHOOSE i \in starts : \A j \in starts : i <= j
                 end == matchingBracket(trimmed, start, 0)
             IN  IF end = 0 THEN [found |-> FALSE, str |-> <<>>]
                 ELSE [found |-> TRUE, str |-> SubSeq(trimmed, start, end)]

\* parseJsonFromResponse(raw): JSON.parse of the leftmost, longest span
\* "[" ... "]" or "{" ... "}" of the trimmed text, or of all of it if none.
parseJsonFromResponse(raw) ==
    LET trimmed == trim(raw)
        close(c) == IF c = "[" THEN "]" ELSE "}"
        ends(i) == {j \in DOMAIN trimmed : j > i /\ trimmed[j].c = close(trimmed[i].c)}
        starts == {i \in DOMAIN trimmed : trimmed[i].c \in {"[", "{"} /\ ends(i) # {}}
    IN  IF starts = {} THEN JSONparse(trimmed)
        ELSE LET i == CHOOSE a \in starts : \A b \in starts : a <= b
                 j == CHOOSE a \in ends(i) : \A b \in ends(i) : a >= b
             IN  JSONparse(SubSeq(trimmed, i, j))

\* getTextFromAnthropicResponse(data): [threw, val]; threw stands for the
\* TypeError of reading a property of null or undefined, val is null or the
\* joined text.
getTextFromAnthropicResponse(data) ==
    IF data.t \in {"null", "undefined"} THEN [threw |-> TRUE, val |-> Null]
    ELSE LET blocks == Get(data, "content")
         IN  IF ~IsArray(blocks) THEN [threw |-> FALSE, val |-> Null]
             ELSE IF \E i \in DOMAIN blocks.v : blocks.v[i].t \in {"null", "undefined"}
                  THEN [threw |-> TRUE, val |-> Null]
             ELSE LET parts == SelectSeq(blocks.v,
                                 LAMBDA b : Get(b, "type") = Str("text")
                                            /\ IsString(Get(b, "text")))
                      join[i \in 0..Len(parts)] ==
                          IF i = 0 THEN <<>> ELSE join[i - 1] \o Get(parts[i], "text").v
                  IN  IF Len(parts) > 0
                      THEN [threw |-> FALSE, val |-> Txt(join[Len(parts)])]
                      ELSE [threw |-> FALSE, val |-> Null]

\* isApiWrapper(obj); typeof null is "object" too.
isApiWrapper(obj) ==
    /\ IsArray(Get(obj, "content"))
    /\ Get(obj, "usage").t \in {"obj", "arr", "null"}
    /\ IsString(Get(obj, "model"))

\* ----------------------------------------- style-chat.ts: resolveLayerIdsInPatch

\* idToIndex.get(id): the index of the last layer whose id is the string id
\* (a later layers.forEach entry overwrites an earlier one), -1 for undefined.
idToIndex(layers, id) ==
    LET hits == {i \in DOMAIN layers.v : Get(layers.v[i], "id") = Str(id)}
    IN  IF hits = {} THEN -1 ELSE (CHOOSE i \in hits : \A j \in hits : i >= j) - 1

\* The callback of patch.map for one operation that is not null or undefined.
MutantResolveOpKeeps(layers, op) == op
resolveOp(layers, op) ==
    LET path == Get(op, "path")
        segments == SelectSeq(path.v, LAMBDA sg : sg # "")
        layerSegmentDecoded == unescapePathComponent(segments[2])
        index == idToIndex(layers, layerSegmentDecoded)
        newPath == Ptr(<<"layers", ToNumeral(index)>> \o SubSeq(segments, 3, Len(segments)))
    IN  IF path.t # "ptr" \/ Len(path.v) < 2 \/ path.v[1] # "layers" THEN op
        ELSE IF Len(segments) < 2 THEN op
        ELSE IF isInteger(layerSegmentDecoded) THEN op
        ELSE IF index = -1 THEN op
        ELSE SetKey(op, "path", newPath)

\* resolveLayerIdsInPatch(style, patch): [threw, patch]; threw stands for the
\* TypeError of op.path on an element that is null or undefined.
resolveLayerIdsInPatch(style, patch) ==
    LET layers == Get(style, "layers")
    IN  IF ~IsArray(layers) THEN [threw |-> FALSE, patch |-> patch]
        ELSE IF \E i \in DOMAIN patch : patch[i].t \in {"null", "undefined"}
             THEN [threw |-> TRUE, patch |-> patch]
        ELSE [threw |-> FALSE, patch |-> [i \in DOMAIN patch |-> resolveOp(layers, patch[i])]]

\* ------------------------------------------- the validator (validateStyleMin)

\* The paint properties the validator reads, in the order it reports them.
PaintProps == <<"fill-color", "line-color">>

\* The errors of one layer: it must be an object, and no paint value may be
\* the value "bad".
layerErrors(layer) ==
    IF layer.t # "obj" THEN <<"layer: object expected">>
    ELSE LET paint == Get(layer, "paint")
             e[i \in 0..Len(PaintProps)] ==
                 IF i = 0 THEN <<>>
                 ELSE IF Get(paint, PaintProps[i]) = Str("bad")
                      THEN Append(e[i - 1], "paint: color expected, bad found")
                      ELSE e[i - 1]
         IN  e[Len(PaintProps)]

\* validateStyleMin(doc): the list of error messages, empty for a valid style.
\* A style must have an array of layers, each without errors.
validateStyleMin(doc) ==
    LET layers == Get(doc, "layers")
        e[i \in 0..(IF IsArray(layers) THEN Len(layers.v) ELSE 0)] ==
            IF i = 0 THEN <<>> ELSE e[i - 1] \o layerErrors(layers.v[i])
    IN  IF ~IsArray(layers) THEN <<"layers: missing required property">>
        ELSE e[Len(layers.v)]

\* -------------------------------------------- style-chat.ts: the apply ladder

\* The heap of one apply ladder: orig is the caller's document object, copy the
\* object cloneDeep made last, ref the object the variable styleCopy refers to.
\* log lists the attempts made: the patch applied and the error it threw.

\* styleCopy = cloneDeep(style)
MutantCloneDeepAlias(h) == [h EXCEPT !.ref = "orig"]
cloneDeep(h) == [h EXCEPT !.ref = "copy", !.copy = h.orig]

\* tryApply(p): applyPatch(styleCopy, p, true, true), which changes the object
\* styleCopy refers to in place, and keeps what it changed when it throws.
tryApply(h, p) ==
    With(applyPatch(h[h.ref], p), LAMBDA r :
        [h EXCEPT ![h.ref] = r.doc,
                  !.log = Append(@, [patch |-> p, err |-> r.err]),
                  !.err = r.err])

\* patch.map((op) => (op.op === from ? { ...op, op: to } : op))
coerce(patch, from, to) ==
    [i \in DOMAIN patch |->
        IF Get(patch[i], "op") = Str(from) THEN SetKey(patch[i], "op", Str(to))
        ELSE patch[i]]

\* String(firstErr).includes("OPERATION_PATH_UNRESOLVABLE")
MutantAnyErrorRetries(err) == TRUE
isPathUnresolvable(err) == err = "OPERATION_PATH_UNRESOLVABLE"

\* Lines 231-272: the ladder on the resolved patch.  The heap after it, with
\* err the message of the error that made it give up ("" when an attempt
\* succeeded).
ladder(style, patch) ==
    LET hasAdd == \E i \in DOMAIN patch : Get(patch[i], "op") = Str("add")
        hasReplace == \E i \in DOMAIN patch : Get(patch[i], "op") = Str("replace")
        h0 == cloneDeep([orig |-> style, copy |-> Undefined, ref |-> "orig",
                         log |-> <<>>, err |-> ""])
    IN  \* patchAsReplace !== null ? tryApply(patchAsReplace) : tryApply(patch)
        With(tryApply(h0, IF hasAdd THEN coerce(patch, "add", "replace") ELSE patch),
             LAMBDA first :
                IF first.err = "" THEN first
                \* the inner catch of lines 244-251
                ELSE IF hasAdd
                     THEN IF isPathUnresolvable(first.err)
                          THEN tryApply(cloneDeep(first), patch)
                          ELSE first
                \* the outer catch with hasReplace && patchAsReplace === null
                ELSE IF hasReplace
                     THEN tryApply(cloneDeep(first), coerce(patch, "replace", "add"))
                ELSE first)

\* { ...doc, id: doc.id || style.id }; a member that is undefined is no member of
\* the JSON value.
MutantWithIdKeepsOwn(doc, style) == doc
withId(doc, style) ==
    LET id == IF Truthy(Get(doc, "id")) THEN Get(doc, "id") ELSE Get(style, "id")
    IN  IF id = Undefined THEN DeleteKey(doc, "id") ELSE SetKey(doc, "id", id)

\* ------------------------------- style-chat.ts: editStyleWithLLM, lines 182-292

\* EditStyleResult.  explanation is Undefined when the result has none; error is
\* the message's fixed part, detail, status and text what it interpolates.
Success(style, explanation) ==
    [ok |-> TRUE, style |-> style, explanation |-> explanation,
     error |-> "", detail |-> "", status |-> 0, text |-> <<>>]
Failure(error, detail) ==
    [ok |-> FALSE, style |-> Undefined, explanation |-> Undefined,
     error |-> error, detail |-> detail, status |-> 0, text |-> <<>>]
NoResult == Failure("", "")

\* A ladder heap on which nothing was tried.
NoLadder(style) ==
    [orig |-> style, copy |-> Undefined, ref |-> "orig", log |-> <<>>, err |-> ""]

\* What the part of a call after res.json() did: it threw (the promise rejects)
\* or returned result; parsed is the last value of the variable parsed, heap the
\* ladder's heap and validated the documents handed to validateStyleMin.
Outcome(threw, result, parsed, heap, validated) ==
    [threw |-> threw, result |-> result, parsed |-> parsed, heap |-> heap,
     validated |-> validated]

\* Lines 187-202: [ok, val]; ok FALSE stands for the return of line 200.
extractParsed(rawText) ==
    With(extractPatchArrayFromText(rawText), LAMBDA patchStr :
        IF patchStr.found /\ patchStr.str # <<>>
        THEN With(JSONparse(patchStr.str), LAMBDA direct :
                IF direct.ok THEN direct ELSE parseJsonFromResponse(rawText))
        ELSE parseJsonFromResponse(rawText))

\* Lines 208-222 for a parsed value that is an API wrapper: [ok, val, error].
MutantUnwrapKeeps(parsed) == [ok |-> TRUE, val |-> parsed, error |-> ""]
unwrap(parsed) ==
    LET inner == Get(parsed, "content")
        first == IF IsArray(inner) /\ Len(inner.v) > 0 THEN inner.v[1] ELSE Undefined
        innerText == Get(first, "text")
        settle(r) ==
            IF ~r.ok
            THEN [ok |-> FALSE, val |-> Undefined,
                  error |-> "Could not parse style from nested response."]
            ELSE [ok |-> TRUE, val |-> r.val, error |-> ""]
    IN  IF ~IsString(innerText)
        THEN [ok |-> FALSE, val |-> Undefined,
              error |-> "Response was API wrapper; no content found."]
        ELSE With(extractPatchArrayFromText(innerText.v), LAMBDA innerPatchStr :
                With(IF innerPatchStr.found /\ innerPatchStr.str # <<>>
                     THEN JSONparse(innerPatchStr.str)
                     ELSE parseJsonFromResponse(innerText.v),
                     settle))

\* Lines 273-279: the result for the patched styleCopy.
MutantPatchedResultUnvalidated(style, h) ==
    Outcome(FALSE, Success(withId(h[h.ref], style), Undefined), Undefined, h, <<>>)
patchedResult(style, h) ==
    With(withId(h[h.ref], style), LAMBDA stamped :
        With(validateStyleMin(stamped), LAMBDA errList :
            IF Len(errList) > 0
            THEN Outcome(FALSE, Failure("Style invalid after patch", errList[1]),
                         Undefined, h, <<stamped>>)
            ELSE Outcome(FALSE, Success(stamped, Undefined), Undefined, h, <<stamped>>)))

\* Lines 227-229: the result for an empty patch, the caller's own document.
MutantEmptyPatchApplies(style) == patchedResult(style, ladder(style, <<>>))
emptyPatchResult(style) ==
    Outcome(FALSE, Success(style, Str("No changes requested.")), Undefined,
            NoLadder(style), <<>>)

\* Lines 225-280: patch mode, for parsed an array.
patchMode(style, parsed) ==
    IF Len(parsed.v) = 0 THEN emptyPatchResult(style)
    ELSE With(resolveLayerIdsInPatch(style, parsed.v), LAMBDA resolved :
            \* op.path in resolveLayerIdsInPatch, op.op in patch.some: a TypeError
            IF \E i \in DOMAIN resolved.patch : resolved.patch[i].t \in {"null", "undefined"}
            THEN Outcome(TRUE, NoResult, Undefined, NoLadder(style), <<>>)
            ELSE With(ladder(style, resolved.patch), LAMBDA h :
                    IF h.err # ""
                    THEN Outcome(FALSE, Failure("Patch failed", h.err), Undefined, h, <<>>)
                    ELSE patchedResult(style, h)))

\* Lines 283-292: the fallback for a full style object.  styleObj.id of null is
\* a TypeError; only null and objects reach this place in the model.
MutantFallbackUnvalidated(style, parsed) ==
    Outcome(FALSE, Success(withId(parsed, style), Undefined), Undefined,
            NoLadder(style), <<>>)
fallbackResult(style, parsed) ==
    IF parsed.t # "obj" THEN Outcome(TRUE, NoResult, Undefined, NoLadder(style), <<>>)
    ELSE With(withId(parsed, style), LAMBDA outStyle :
            With(validateStyleMin(outStyle), LAMBDA outErrors :
                IF Len(outErrors) > 0
                THEN Outcome(FALSE, Failure("Invalid style", outErrors[1]), Undefined,
                             NoLadder(style), <<outStyle>>)
                ELSE Outcome(FALSE, Success(outStyle, Undefined), Undefined,
                             NoLadder(style), <<outStyle>>)))

\* Lines 224-292 for the final value of parsed.
applyParsed(style, parsed) ==
    [(IF IsArray(parsed) THEN patchMode(style, parsed) ELSE fallbackResult(style, parsed))
        EXCEPT !.parsed = parsed]

\* Lines 182-292: the call from the resolution of res.json() with data to its end.
completeEdit(style, data) ==
    LET fail(error) == Outcome(FALSE, Failure(error, ""), Undefined, NoLadder(style), <<>>)
    IN  With(getTextFromAnthropicResponse(data), LAMBDA text :
            IF text.threw THEN Outcome(TRUE, NoResult, Undefined, NoLadder(style), <<>>)
            ELSE IF ~Truthy(text.val) THEN fail("Empty or invalid response from API")
            ELSE With(extractParsed(text.val.v), LAMBDA first :
                    IF ~first.ok
                    THEN fail("Model did not return valid JSON. Try rephrasing your request.")
                    ELSE IF ~IsObject(first.val)
                    THEN [fail("Model response was not JSON object or array.")
                             EXCEPT !.parsed = first.val]
                    ELSE With(IF isApiWrapper(first.val) THEN unwrap(first.val)
                              ELSE [ok |-> TRUE, val |-> first.val, error |-> ""],
                              LAMBDA inner :
                                IF inner.ok THEN applyParsed(style, inner.val)
                                ELSE [fail(inner.error) EXCEPT !.parsed = first.val])))

\* -------------------------------------------------------- JSON.stringify

\* The order in which the members of the modelled objects are written.
KeyOrder == <<"op", "path", "value", "type", "text", "content", "usage", "model",
              "error", "id", "layers", "paint", "fill-color", "line-color">>

RECURSIVE stringify(_)
\* JSON.stringify(x) as text.
stringify(x) ==
    CASE x.t \in {"str", "ptr"} -> <<ChStr(x)>>
      [] x.t = "txt" -> <<Ch("q(")>> \o Escape(x.v) \o <<Ch("q)")>>
      [] x.t = "null" -> <<Ch("null")>>
      [] x.t = "arr" ->
            LET e[i \in 0..Len(x.v)] ==
                    IF i = 0 THEN <<>> ELSE e[i - 1] \o stringify(x.v[i])
            IN  <<Ch("[")>> \o e[Len(x.v)] \o <<Ch("]")>>
      [] x.t = "obj" ->
            LET m[i \in 0..Len(KeyOrder)] ==
                    IF i = 0 THEN <<>>
                    ELSE IF KeyOrder[i] \in DOMAIN x.v
                         THEN m[i - 1] \o <<ChKey(KeyOrder[i])>> \o stringify(x.v[KeyOrder[i]])
                         ELSE m[i - 1]
            IN  <<Ch("{")>> \o m[Len(KeyOrder)] \o <<Ch("}")>>

\* ------------------------------------------------------------------ inputs

Layer(id, paint) == Obj(("id" :> Str(id)) @@ ("paint" :> paint))

\* The caller's documents: a style of two layers, and one without layers array.
StyleTwoLayers ==
    Obj(("id" :> Str("s1")) @@
        ("layers" :> Arr(<<Layer("water", Obj("fill-color" :> Str("#00f"))),
                           Layer("park", EmptyObj)>>)))
StyleNoLayers == Obj("id" :> Str("s2"))
Styles == {StyleTwoLayers, StyleNoLayers}

Op(op, path, value) ==
    Obj(("op" :> Str(op)) @@ ("path" :> Ptr(path)) @@ ("value" :> value))
OpNoValue(op, path) == Obj(("op" :> Str(op)) @@ ("path" :> Ptr(path)))

\* A full style the model may send, as the value of a root replace or in place of
\* a patch.
StyleFromModel == Obj("layers" :> Arr(<<Layer("sea", EmptyObj)>>))
\* One that has an id of its own.
StyleFromModelWithId ==
    Obj(("id" :> Str("m2")) @@ ("layers" :> Arr(<<Layer("sea", EmptyObj)>>)))
\* One the validator reports two errors for.
BadStyleFromModel ==
    Obj(("id" :> Str("m1")) @@
        ("layers" :> Arr(<<Str("water"), Layer("sea", Obj("line-color" :> Str("bad")))>>)))

\* The operations the model's patches are made of.
OpUniverse ==
    { Op("replace", <<"layers", "water", "paint", "fill-color">>, Str("#111")),
      Op("add", <<"layers", "park", "paint", "fill-color">>, Str("#cde")),
      Op("replace", <<"layers", "park", "paint", "line-color">>, Str("#222")),
      Op("replace", <<"layers", "water", "paint", "fill-color">>, Str("bad")),
      Op("add", <<"layers", "0">>, Layer("new", EmptyObj)),
      OpNoValue("remove", <<"layers", "water">>),
      Op("replace", <<>>, StyleFromModel),
      OpNoValue("remove", <<"id">>),
      Op("add", <<"layers", "ghost", "paint", "fill-color">>, Str("#cde")),
      Op("set", <<"layers", "water", "paint", "fill-color">>, Str("#111")),
      Null }

\* The patches of at most MaxPatchLen operations.
Patches == UNION {[1..n -> OpUniverse] : n \in 0..MaxPatchLen}

Prose == <<Ch("w"), Ch(" ")>>

\* A provider envelope around reply text.
TextBlock(text) == Obj(("type" :> Str("text")) @@ ("text" :> Txt(text)))
Envelope(blocks) ==
    Obj(("content" :> Arr(blocks)) @@ ("usage" :> EmptyObj) @@ ("model" :> Str("m")))

\* The texts the model replies with: a patch, bare or inside prose, a full
\* style, the provider's own envelope, a JSON null, prose, nothing.
ReplyTexts ==
    {stringify(Arr(p)) : p \in Patches}
    \cup {Prose \o stringify(Arr(p)) \o Prose : p \in {q \in Patches : Len(q) <= 1}}
    \cup {stringify(StyleFromModel), stringify(StyleFromModelWithId),
          stringify(BadStyleFromModel)}
    \cup {stringify(Envelope(<<TextBlock(stringify(Arr(<<o>>)))>>)) :
            o \in {Op("replace", <<"layers", "water", "paint", "fill-color">>, Str("#111"))}}
    \cup {stringify(Envelope(<<TextBlock(<<Ch("null")>>)>>)),
          stringify(Envelope(<<>>)),
          <<Ch("null")>>, <<Ch("w")>>, <<Ch(" ")>>, <<>>}

\* The values res.json() resolves with: an envelope with the reply in one text
\* block or split over two, and envelopes without text.
OneOpText ==
    stringify(Arr(<<Op("replace", <<"layers", "water", "paint", "fill-color">>, Str("#111"))>>))
\* Replies that are the provider's envelope around an envelope, and around a
\* block without text followed by a text block.
NestedReplies ==
    {stringify(Envelope(<<TextBlock(stringify(Envelope(<<TextBlock(<<Ch("null")>>)>>)))>>)),
     stringify(Envelope(<<TextBlock(stringify(Envelope(<<TextBlock(OneOpText)>>)))>>)),
     stringify(Envelope(<<Obj("type" :> Str("tool_use")), TextBlock(OneOpText)>>))}
Envelopes ==
    {Envelope(<<TextBlock(t)>>) : t \in ReplyTexts \cup NestedReplies}
    \cup {Envelope(<<Obj("type" :> Str("tool_use")),
                     TextBlock(SubSeq(OneOpText, 1, 2)),
                     TextBlock(SubSeq(OneOpText, 3, Len(OneOpText)))>>),
          Envelope(<<Obj("type" :> Str("tool_use"))>>),
          Envelope(<<Null>>),
          EmptyObj,
          Null}

\* A body of n words that is no JSON.
Words(n) == [i \in 1..n |-> Ch("w")]

\* text.slice(0, 200) of line 172
ErrorTextLimit == 200

\* The responses of the provider: 200 with an envelope or with a body that is
\* no JSON, and errors with bodies around the length the error message keeps.
ProviderResponses ==
    {[status |-> 200, body |-> stringify(e)] : e \in Envelopes}
    \cup {[status |-> 200, body |-> Words(1)]}
    \cup {[status |-> st, body |-> Words(n)] :
            st \in {401, 529}, n \in {0, ErrorTextLimit, ErrorTextLimit + 1}}

\* The answers the provider gives to the panel's requests: a patch that
\* applies, no change, a patch that fails, and an error.
PanelResponses ==
    {[status |-> 200,
      body |-> stringify(Envelope(<<TextBlock(stringify(Arr(patch)))>>))] :
        patch \in {<<Op("replace", <<"layers", "water", "paint", "fill-color">>, Str("#111"))>>,
                   <<>>,
                   <<Op("add", <<"layers", "ghost", "paint", "fill-color">>, Str("#cde"))>>}}
    \cup {[status |-> 401, body |-> Words(1)]}

NoResponse == [status |-> 0, body |-> <<>>]

\* res.ok
ResponseOk(res) == res.status >= 200 /\ res.status <= 299

\* The endpoints: a URL is its first character and the rest.
ANTHROPIC_PROXY_PATH == <<"/", "api/anthropic/messages">>
ANTHROPIC_URL == <<"h", "ttps://api.anthropic.com/v1/messages">>
\* apiUrl.startsWith("/")
startsWithSlash(url) == url # <<>> /\ url[1] = "/"

\* Credentials: none, the empty string, white space, a key.
ApiKeys == {Undefined, Txt(<<>>), Txt(<<Ch(" ")>>), Txt(<<Ch("w")>>)}
\* key?.trim() is truthy
hasCredential(key) == key # Undefined /\ trim(key.v) # <<>>

\* What a call runs with: its endpoint and credential, and the ANTHROPIC_API_KEY
\* of the dev server's environment (read only by the proxy).
Configs ==
    {[apiUrl |-> ANTHROPIC_URL, apiKey |-> k, serverKey |-> Undefined] : k \in ApiKeys}
    \cup {[apiUrl |-> ANTHROPIC_PROXY_PATH, apiKey |-> Undefined, serverKey |-> k] :
            k \in {Undefined, Txt(<<Ch(" ")>>), Txt(<<Ch("w")>>)}}

\* ------------------------------------------------------------------- state

VARIABLES
    pc,         \* where the editStyleWithLLM call stands: "idle", awaiting "fetch",
                \* "text" (res.text()) or "json" (res.json()), "returned", "rejected"
    style,      \* the caller's document object (params.style)
    args,       \* the call's parameters: [style (as passed), apiUrl, apiKey, serverKey]
    requests,   \* the requests the call sent with fetch
    response,   \* res, once fetch resolved
    result,     \* the EditStyleResult returned
    parsed,     \* the last value of the variable parsed
    heap,       \* the apply ladder's heap and log of attempts
    validated,  \* the documents handed to validateStyleMin
    px,         \* the dev proxy's handling of the call's request
    panel,      \* the chat panel: its React state and props
    fn          \* the arguments and the value of a function applied on its own

vars == <<pc, style, args, requests, response, result, parsed, heap, validated, px,
          panel, fn>>

\* The proxy before a request: req is the request stream ("open", "ended",
\* "errored", "destroyed"), the timeouts are "unset", "armed", "cleared" or
\* "fired", upstream the fetch to the provider ("none", "pending", "reading",
\* "rejected", "done"), sent the response written to the client, chunks the
\* number of data events that added to body.
PxIdle ==
    [phase |-> "none", req |-> "open", bodyDone |-> FALSE, bodyTimeout |-> "unset",
     fetchTimeout |-> "unset", upstream |-> "none", errName |-> "",
     upstreamRes |-> NoResponse, upstreamRequests |-> 0, sent |-> NoResponse,
     writes |-> 0, chunks |-> 0]

\* The panel before it is mounted, and no function applied on its own.
PanelNone ==
    [mounted |-> FALSE, messages |-> <<>>, loading |-> FALSE, input |-> <<>>,
     mapStyle |-> Undefined, event |-> "none", accepted |-> FALSE,
     pending |-> 0, changes |-> 0]
FnNone == [name |-> "none"]

\* The engine before its first call.
InitEngine ==
    /\ pc = "idle"
    /\ style = StyleTwoLayers
    /\ args = [style |-> StyleTwoLayers, apiUrl |-> ANTHROPIC_PROXY_PATH,
               apiKey |-> Undefined, serverKey |-> Undefined,
               prompt |-> <<>>, conversationHistory |-> <<>>]
    /\ requests = <<>>
    /\ response = NoResponse
    /\ result = NoResult
    /\ parsed = Undefined
    /\ heap = NoLadder(StyleTwoLayers)
    /\ validated = <<>>
    /\ px = PxIdle

Init ==
    /\ InitEngine
    /\ panel = PanelNone
    /\ fn = FnNone

useProxy == startsWithSlash(args.apiUrl)

\* --------------------------------------------- editStyleWithLLM: the actions

\* A prompt is text: a sequence of characters, of which only white space and
\* words are told apart.
Prompts == {<<Ch("w")>>, <<Ch(" "), Ch("w"), Ch("w"), Ch(" ")>>}

\* conversationHistory.slice(-6) of line 136
HistoryWindow == 6

\* The content of a message: said is its text, json the document the text
\* embeds; a message made of a result carries the result's explanation, or its
\* error with what the error interpolates.
Content(said) ==
    [said |-> said, json |-> <<>>, explanation |-> Undefined, error |-> "",
     detail |-> "", status |-> 0, text |-> <<>>]
Turn(role, content) == [role |-> role, content |-> content]

\* h.slice(-n)
MutantSliceLastKeepsAll(h, n) == h
sliceLast(h, n) == SubSeq(h, IF Len(h) > n THEN Len(h) - n + 1 ELSE 1, Len(h))

\* Lines 137-140: the turn that embeds the document, pretty-printed, and the
\* user's request.
currentTurn(doc, prompt) ==
    Turn("user", [Content(prompt) EXCEPT !.json = stringify(doc)])

\* Lines 136-141: the messages of the request.
requestMessages(history, doc, prompt) ==
    [i \in DOMAIN sliceLast(history, HistoryWindow) |->
        Turn(sliceLast(history, HistoryWindow)[i].role,
             sliceLast(history, HistoryWindow)[i].content)]
    \o <<currentTurn(doc, prompt)>>

\* Lines 143-164: the request fetch sends; x-api-key is set for a direct
\* endpoint with a truthy key.
fetchRequest(cfg, messages) ==
    [url |-> cfg.apiUrl,
     xApiKey |-> IF ~startsWithSlash(cfg.apiUrl) /\ Truthy(cfg.apiKey)
                 THEN cfg.apiKey ELSE Undefined,
     messages |-> messages]

\* Lines 158-164: the requests one call sends.
MutantSendTwice(cfg, messages) ==
    <<fetchRequest(cfg, messages), fetchRequest(cfg, messages)>>
send(cfg, messages) == <<fetchRequest(cfg, messages)>>

\* Lines 121-164 on the state of the call: a call with its parameters, up to
\* its return for a missing key or its fetch.
CallEngine(cfg, doc, prompt, history) ==
    /\ pc \in {"idle", "returned", "rejected"}
    /\ style' = doc
    /\ args' = [style |-> doc, apiUrl |-> cfg.apiUrl, apiKey |-> cfg.apiKey,
                serverKey |-> cfg.serverKey, prompt |-> prompt,
                conversationHistory |-> history]
    /\ response' = NoResponse
    /\ parsed' = Undefined
    /\ heap' = NoLadder(doc)
    /\ validated' = <<>>
    /\ px' = PxIdle
    /\ IF ~startsWithSlash(cfg.apiUrl) /\ ~hasCredential(cfg.apiKey)
       THEN /\ result' = Failure("Missing API key. Set VITE_ANTHROPIC_API_KEY or, in dev, ANTHROPIC_API_KEY on the server.", "")
            /\ pc' = "returned"
            /\ requests' = <<>>
       ELSE /\ result' = NoResult
            /\ pc' = "fetch"
            /\ requests' = send(cfg, requestMessages(history, doc, prompt))

\* A call by a caller that passes no history (conversationHistory = []).
MutantCallFetchesFirst(cfg, doc) ==
    /\ pc \in {"idle", "returned", "rejected"}
    /\ style' = doc
    /\ args' = [style |-> doc, apiUrl |-> cfg.apiUrl, apiKey |-> cfg.apiKey,
                serverKey |-> cfg.serverKey, prompt |-> <<Ch("w")>>,
                conversationHistory |-> <<>>]
    /\ response' = NoResponse
    /\ parsed' = Undefined
    /\ heap' = NoLadder(doc)
    /\ validated' = <<>>
    /\ px' = PxIdle
    /\ result' = NoResult
    /\ pc' = "fetch"
    /\ requests' = send(cfg, requestMessages(<<>>, doc, <<Ch("w")>>))
    /\ UNCHANGED <<panel, fn>>
Call(cfg, doc) ==
    /\ CallEngine(cfg, doc, <<Ch("w")>>, <<>>)
    /\ UNCHANGED <<panel, fn>>

\* Lines 165-168: fetch rejects (the endpoint cannot be reached, the connection
\* breaks).
FetchReject ==
    /\ pc = "fetch"
    /\ result' = Failure("Network error", "Failed to fetch")
    /\ pc' = "returned"
    /\ UNCHANGED <<style, args, requests, response, parsed, heap, validated, px, panel, fn>>

\* Lines 170-171 and 175-177: fetch resolves with res, up to the await of
\* res.text() or res.json().  The provider answers a direct request; the proxy's
\* response is what it wrote.
FetchResolve ==
    /\ pc = "fetch"
    /\ \E res \in (IF useProxy
                   THEN (IF px.sent # NoResponse THEN {px.sent} ELSE {})
                   ELSE IF panel.mounted THEN PanelResponses
                   ELSE ProviderResponses) :
          /\ response' = res
          /\ pc' = IF ResponseOk(res) THEN "json" ELSE "text"
    /\ UNCHANGED <<style, args, requests, result, parsed, heap, validated, px, panel, fn>>

\* Line 172: res.text() resolves.
TextResolve ==
    /\ pc = "text"
    /\ result' = [Failure("API error", "") EXCEPT
                    !.status = response.status,
                    !.text = slice0(response.body, ErrorTextLimit)]
    /\ pc' = "returned"
    /\ UNCHANGED <<style, args, requests, response, parsed, heap, validated, px, panel, fn>>

\* Line 171: res.text() rejects (the body cannot be read); nothing catches it.
TextReject ==
    /\ pc = "text"
    /\ pc' = "rejected"
    /\ UNCHANGED <<style, args, requests, response, result, parsed, heap, validated, px, panel, fn>>

\* Lines 176-292: res.json() settles: it rejects for a body that is no JSON, and
\* the call runs to its end with the data it resolves with.
JsonSettle ==
    /\ pc = "json"
    /\ LET data == JSONparse(response.body)
           out == completeEdit(style, data.val)
       IN  IF ~data.ok
           THEN /\ result' = Failure("Invalid JSON response from API", "")
                /\ pc' = "returned"
                /\ UNCHANGED <<style, parsed, heap, validated>>
           ELSE /\ result' = out.result
                /\ pc' = IF out.threw THEN "rejected" ELSE "returned"
                /\ style' = out.heap.orig
                /\ parsed' = out.parsed
                /\ heap' = out.heap
                /\ validated' = out.validated
    /\ UNCHANGED <<args, requests, response, px, panel, fn>>

\* Lines 176-180: res.json() rejects because the body cannot be read.
JsonReject ==
    /\ pc = "json"
    /\ result' = Failure("Invalid JSON response from API", "")
    /\ pc' = "returned"
    /\ UNCHANGED <<style, args, requests, response, parsed, heap, validated, px, panel, fn>>

\* ------------------------------------------ vite-plugin-anthropic-proxy.ts

\* sendJson(res, status, body) when no headers were sent: the response written.
sendJson(status, message) ==
    [status |-> status, body |-> stringify(Obj("error" :> Str(message)))]

\* res.headersSent
headersSent == px.sent # NoResponse

\* A write of response r to the client, which sendJson and the then callback make
\* only while no headers were sent.
PxWrite(p, r) ==
    IF p.sent # NoResponse THEN p
    ELSE [p EXCEPT !.sent = r, !.writes = @ + 1]

PxUnchanged ==
    UNCHANGED <<pc, style, args, requests, response, result, parsed, heap, validated,
                panel, fn>>

\* Lines 33-63: the middleware takes the POST: without a server key it answers
\* 500, else it arms the body timeout and listens to the request stream.
PxMiddleware ==
    /\ pc = "fetch" /\ useProxy
    /\ px.phase = "none"
    /\ px' = IF ~hasCredential(args.serverKey)
             THEN PxWrite([px EXCEPT !.phase = "done"],
                          sendJson(500, "ANTHROPIC_API_KEY is not set. Add it to a .env file in the project root and restart the dev server."))
             ELSE [px EXCEPT !.phase = "body", !.bodyTimeout = "armed"]
    /\ PxUnchanged

\* Lines 52-57: the body timeout fires.
PxBodyTimeout ==
    /\ pc = "fetch"
    /\ px.bodyTimeout = "armed"
    /\ px' = IF px.bodyDone THEN [px EXCEPT !.bodyTimeout = "fired"]
             ELSE PxWrite([px EXCEPT !.bodyTimeout = "fired", !.bodyDone = TRUE,
                                     !.req = "destroyed"],
                          sendJson(408, "Request body timeout. The request was too slow or too large."))
    /\ PxUnchanged

\* Line 59: a chunk of the body arrives.
PxData ==
    /\ pc = "fetch"
    /\ px.phase = "body"
    /\ px.req = "open"
    /\ px.chunks < MaxChunks
    /\ px' = [px EXCEPT !.chunks = @ + 1]
    /\ PxUnchanged

\* Lines 60-63: the request stream's error event, while the body arrives or
\* after the stream was destroyed.
PxReqError ==
    /\ pc = "fetch"
    /\ px.phase = "body"
    /\ px.req \in {"open", "destroyed"}
    /\ px' = [(IF ~px.bodyDone /\ ~headersSent
               THEN PxWrite(px, sendJson(500, "Request stream error."))
               ELSE px)
                EXCEPT !.bodyDone = TRUE, !.req = "errored"]
    /\ PxUnchanged

\* Lines 64-80: the request stream's end event: the upstream fetch starts.
PxEnd ==
    /\ pc = "fetch"
    /\ px.phase = "body"
    /\ px.req = "open"
    /\ LET cleared == [px EXCEPT !.req = "ended",
                                 !.bodyTimeout = IF @ = "armed" THEN "cleared" ELSE @]
       IN  px' = IF px.bodyDone THEN cleared
                 ELSE [cleared EXCEPT !.bodyDone = TRUE, !.phase = "upstream",
                                      !.fetchTimeout = "armed", !.upstream = "pending",
                                      !.upstreamRequests = @ + 1]
    /\ PxUnchanged

\* Line 69: the upstream timeout fires and aborts the fetch, which rejects with
\* an AbortError.
PxAbortTimer ==
    /\ pc = "fetch"
    /\ px.fetchTimeout = "armed"
    /\ px.upstream = "pending"
    /\ px' = [px EXCEPT !.fetchTimeout = "fired", !.upstream = "rejected",
                        !.errName = "AbortError"]
    /\ PxUnchanged

\* Lines 81-83: the provider answers: the then callback up to its await.
PxUpstreamResolve ==
    /\ pc = "fetch"
    /\ px.upstream = "pending"
    /\ \E res \in ProviderResponses :
          px' = [px EXCEPT !.fetchTimeout = "cleared", !.upstream = "reading",
                           !.upstreamRes = res]
    /\ PxUnchanged

\* Lines 84-88: proxyRes.text() resolves and the response is passed on.
PxUpstreamText ==
    /\ pc = "fetch"
    /\ px.upstream = "reading"
    /\ px' = PxWrite([px EXCEPT !.upstream = "done", !.phase = "done"], px.upstreamRes)
    /\ PxUnchanged

\* The upstream fetch, or the reading of its body, fails.
PxUpstreamFail ==
    /\ pc = "fetch"
    /\ px.upstream \in {"pending", "reading"}
    /\ px' = [px EXCEPT !.upstream = "rejected", !.errName = "TypeError"]
    /\ PxUnchanged

\* Lines 93-97: the response the catch callback sends for an error of that name.
MutantCatchResponseAlways502(errName) == sendJson(502, "fetch failed")
catchResponse(errName) ==
    IF errName = "AbortError"
    THEN sendJson(504, "Request to Anthropic timed out. Try a shorter prompt or try again.")
    ELSE sendJson(502, "fetch failed")

\* Lines 90-98: the catch callback.
PxCatch ==
    /\ pc = "fetch"
    /\ px.upstream = "rejected"
    /\ LET p == [px EXCEPT !.upstream = "done", !.phase = "done",
                           !.fetchTimeout = IF @ = "armed" THEN "cleared" ELSE @]
       IN  px' = PxWrite(p, catchResponse(px.errName))
    /\ PxUnchanged

Proxy ==
    \/ PxMiddleware
    \/ PxBodyTimeout
    \/ PxData
    \/ PxReqError
    \/ PxEnd
    \/ PxAbortTimer
    \/ PxUpstreamResolve
    \/ PxUpstreamText
    \/ PxUpstreamFail
    \/ PxCatch

Next ==
    \/ \E cfg \in Configs, doc \in Styles : Call(cfg, doc)
    \/ FetchReject
    \/ FetchResolve
    \/ TextResolve
    \/ TextReject
    \/ JsonSettle
    \/ JsonReject
    \/ Proxy

Spec == Init /\ [][Next]_vars

\* ------------------------------------------------- the proxy taken on its own

\* The keys the server's environment holds (line 28).
ServerKeys == {Undefined, Txt(<<Ch(" ")>>), Txt(<<Ch("w")>>)}

\* A POST to PROXY_PATH has reached the middleware (lines 33-39): the state a
\* call leaves when it fetches the proxy path.
InitProxy ==
    /\ pc = "fetch"
    /\ style = StyleTwoLayers
    /\ \E k \in ServerKeys :
          /\ args = [style |-> StyleTwoLayers, apiUrl |-> ANTHROPIC_PROXY_PATH,
                     apiKey |-> Undefined, serverKey |-> k,
                     prompt |-> <<Ch("w")>>, conversationHistory |-> <<>>]
          /\ requests = send(args, requestMessages(<<>>, StyleTwoLayers, <<Ch("w")>>))
    /\ response = NoResponse
    /\ result = NoResult
    /\ parsed = Undefined
    /\ heap = NoLadder(StyleTwoLayers)
    /\ validated = <<>>
    /\ px = PxIdle
    /\ panel = PanelNone
    /\ fn = FnNone

SpecProxy == InitProxy /\ [][Proxy]_vars

\* The proxy with the scheduling its code arranges: the middleware runs for the
\* request it was given (33-48), an armed timer fires unless it is cleared
\* (52-57, 69), and the catch callback runs once the promise is rejected
\* (90-98).  The client and the provider owe nothing: the request stream may
\* stay silent, and the provider may never answer or never finish its body.
SpecProxyFair ==
    /\ InitProxy
    /\ [][Proxy]_vars
    /\ WF_vars(PxMiddleware)
    /\ WF_vars(PxBodyTimeout)
    /\ WF_vars(PxAbortTimer)
    /\ WF_vars(PxCatch)

\* ------------------------------------- editStyleWithLLM called with a history

\* The histories a caller passes: turn i says i words, the roles alternate.
History(n, first) ==
    [i \in 1..n |->
        Turn(IF (i % 2 = 1) = (first = "user") THEN "user" ELSE "assistant",
             Content(Words(i)))]
Histories == {History(n, first) : n \in 0..MaxHistory, first \in {"user", "assistant"}}

\* Lines 121-164: a call with a prompt and a conversation history.
CallWithHistory(cfg, doc, prompt, history) ==
    /\ CallEngine(cfg, doc, prompt, history)
    /\ UNCHANGED <<panel, fn>>

\* Calls with histories of every length, while the endpoint cannot be reached.
NextRequest ==
    \/ \E cfg \in Configs, doc \in Styles, prompt \in Prompts, history \in Histories :
          CallWithHistory(cfg, doc, prompt, history)
    \/ FetchReject

SpecRequest == Init /\ [][NextRequest]_vars

\* --------------------------------------------------------- StyleChatPanel.tsx

\* The state of the editStyleWithLLM call.
engine == <<pc, style, args, requests, response, result, parsed, heap, validated, px>>

\* Lines 41-48 and ModalChat.tsx 112-114: the panel as constructed, with the
\* document its parent passes as mapStyle.
PanelMounted(doc) == [PanelNone EXCEPT !.mounted = TRUE, !.mapStyle = doc]

InitPanel ==
    /\ InitEngine
    /\ \E doc \in Styles : panel = PanelMounted(doc)
    /\ fn = FnNone

\* What the textarea can hold.
Inputs == {<<>>, <<Ch(" ")>>, <<Ch("w")>>, <<Ch(" "), Ch("w"), Ch("w"), Ch(" ")>>}

\* The environment the panel's calls run with (the panel passes neither apiUrl
\* nor apiKey): a direct endpoint with or without a key.
PanelConfigs ==
    {[apiUrl |-> ANTHROPIC_URL, apiKey |-> k, serverKey |-> Undefined] :
        k \in {Undefined, Txt(<<Ch("w")>>)}}

\* Lines 97-99: onInputChange; the textarea is disabled while loading (line 149).
PanelInputChange(text) ==
    /\ panel.mounted
    /\ ~panel.loading
    /\ panel' = [panel EXCEPT !.input = text, !.event = "change"]
    /\ UNCHANGED engine
    /\ UNCHANGED fn

\* Line 59: if (!prompt || this.state.loading) return
returnsEarly(prompt, loading) == prompt = <<>> \/ loading

\* Lines 56-74: onSubmit up to its await, run for event ev.  The conversation is
\* bounded by MaxTurns.  pending counts the calls of editStyleWithLLM that have
\* not come back; the state of the call is kept for the one made first.
MutantOnSubmitUnguarded(cfg, ev) ==
    /\ Len(panel.messages) < MaxTurns
    /\ panel' = [panel EXCEPT
                    !.messages = @ \o <<Turn("user", Content(trim(panel.input)))>>,
                    !.input = <<>>, !.loading = TRUE, !.event = ev,
                    !.accepted = TRUE, !.pending = @ + 1]
    /\ IF pc \in {"fetch", "text", "json"}
       THEN UNCHANGED engine
       ELSE CallEngine(cfg, panel.mapStyle, trim(panel.input),
                       sliceLast(panel.messages \o <<Turn("user", Content(trim(panel.input)))>>,
                                 HistoryWindow))
onSubmit(cfg, ev) ==
    LET prompt == trim(panel.input)
        userMessage == Turn("user", Content(prompt))
        history == panel.messages \o <<userMessage>>
    IN  IF returnsEarly(prompt, panel.loading)
        THEN /\ panel' = [panel EXCEPT !.event = ev, !.accepted = FALSE]
             /\ UNCHANGED engine
        ELSE /\ Len(panel.messages) < MaxTurns
             /\ panel' = [panel EXCEPT !.messages = history, !.input = <<>>,
                                       !.loading = TRUE, !.event = ev,
                                       !.accepted = TRUE, !.pending = @ + 1]
             /\ IF pc \in {"fetch", "text", "json"}
                THEN UNCHANGED engine
                ELSE CallEngine(cfg, panel.mapStyle, prompt,
                                sliceLast(history, HistoryWindow))

\* The form's submit event.
PanelSubmit(cfg) ==
    /\ panel.mounted
    /\ onSubmit(cfg, "submit")
    /\ UNCHANGED fn

\* Lines 101-110: onTextareaKeyDown.
PanelKeyDown(cfg, key, modifier) ==
    /\ panel.mounted
    /\ IF key = "Enter" /\ ~modifier /\ trim(panel.input) # <<>> /\ ~panel.loading
       THEN onSubmit(cfg, "keydown")
       ELSE /\ panel' = [panel EXCEPT !.event = "keydown", !.accepted = FALSE]
            /\ UNCHANGED engine
    /\ UNCHANGED fn

\* Lines 76-94: onSubmit after its await, with the result the call returned.
\* onStyleChanged hands the document to the parent, which passes it back as
\* mapStyle.
PanelSettle ==
    /\ panel.mounted
    /\ panel.loading
    /\ pc = "returned"
    /\ panel' =
          IF result.ok
          THEN [panel EXCEPT
                  !.mapStyle = withId(result.style, panel.mapStyle),
                  !.changes = @ + 1,
                  !.pending = @ - 1,
                  !.messages = @ \o <<Turn("assistant",
                                    [Content(<<Ch("Style updated.")>>) EXCEPT
                                        !.explanation = result.explanation])>>,
                  !.loading = FALSE,
                  !.event = "settled"]
          ELSE [panel EXCEPT
                  !.messages = @ \o <<Turn("assistant",
                                    [Content(<<>>) EXCEPT
                                        !.error = result.error,
                                        !.detail = result.detail,
                                        !.status = result.status,
                                        !.text = result.text])>>,
                  !.pending = @ - 1,
                  !.loading = FALSE,
                  !.event = "settled"]
    /\ UNCHANGED engine
    /\ UNCHANGED fn

\* Lines 70-74: the awaited call rejects; onSubmit throws at its await and none
\* of lines 76-94 runs.
PanelThrow ==
    /\ panel.mounted
    /\ panel.pending > 0
    /\ pc = "rejected"
    /\ panel' = [panel EXCEPT !.pending = @ - 1, !.event = "thrown"]
    /\ UNCHANGED engine
    /\ UNCHANGED fn

\* The document after an edit made elsewhere in the editor: one more layer.
editedElsewhere(doc) ==
    SetKey(doc, "layers",
           Arr((IF IsArray(Get(doc, "layers")) THEN Get(doc, "layers").v ELSE <<>>)
               \o <<Layer("road", EmptyObj)>>))

\* ModalChat.tsx 112-114: the parent passes another mapStyle, the document as
\* edited elsewhere (once per document).
PanelStyleChangedElsewhere ==
    /\ panel.mounted
    /\ IF IsArray(Get(panel.mapStyle, "layers"))
       THEN \A i \in DOMAIN Get(panel.mapStyle, "layers").v :
               Get(Get(panel.mapStyle, "layers").v[i], "id") # Str("road")
       ELSE TRUE
    /\ panel' = [panel EXCEPT !.mapStyle = editedElsewhere(@), !.event = "props"]
    /\ UNCHANGED engine
    /\ UNCHANGED fn

NextPanel ==
    \/ \E text \in Inputs : PanelInputChange(text)
    \/ \E cfg \in PanelConfigs : PanelSubmit(cfg)
    \/ \E cfg \in PanelConfigs, key \in {"Enter", "a"}, modifier \in BOOLEAN :
          PanelKeyDown(cfg, key, modifier)
    \/ PanelSettle
    \/ PanelThrow
    \/ PanelStyleChangedElsewhere
    \/ FetchReject
    \/ FetchResolve
    \/ TextResolve
    \/ TextReject
    \/ JsonSettle
    \/ JsonReject

SpecPanel == InitPanel /\ [][NextPanel]_vars

\* The panel with the scheduling the runtime gives it: a pending fetch settles
\* (style-chat.ts 148-168), a pending body read settles (171, 177), and the
\* continuation of onSubmit runs once the awaited call has settled (70-76).
\* Nothing obliges the user to type or to submit.
SpecPanelFair ==
    /\ InitPanel
    /\ [][NextPanel]_vars
    /\ WF_vars(FetchReject \/ FetchResolve)
    /\ WF_vars(TextResolve \/ TextReject)
    /\ WF_vars(JsonReject \/ JsonSettle)
    /\ WF_vars(PanelSettle)
    /\ WF_vars(PanelThrow)

\* ------------------------------------ resolveLayerIdsInPatch applied on its own

\* A document whose layers have a numeric id and an id with a slash.
StyleFourLayers ==
    Obj(("id" :> Str("s4")) @@
        ("layers" :> Arr(<<Layer("water", Obj("fill-color" :> Str("#00f"))),
                           Layer("park", EmptyObj),
                           Layer("1", EmptyObj),
                           Layer("a/b", EmptyObj)>>)))

\* Operations whose paths name a layer by id, by an escaped id, by a numeric id
\* or index, by an id no layer has, with an empty or an escaped later segment,
\* and a path outside layers.
ResolverOps ==
    { Op("replace", <<"layers", "water", "paint", "fill-color">>, Str("#111")),
      Op("add", <<"layers", "park", "paint", "fill-color">>, Str("#cde")),
      Op("add", <<"layers", "a~1b", "paint", "fill-color">>, Str("#cde")),
      Op("add", <<"layers", "1", "paint", "line-color">>, Str("#222")),
      Op("add", <<"layers", "ghost", "paint", "fill-color">>, Str("#cde")),
      Op("add", <<"layers", "water", "paint", "">>, Str("#abc")),
      Op("add", <<"layers", "park", "paint", "~01">>, Str("#abc")),
      Op("add", <<"layers", "0">>, Layer("new", EmptyObj)),
      OpNoValue("remove", <<"layers", "water">>),
      Op("replace", <<"id">>, Str("s9")) }

\* The patches of at most MaxPatchLen of these operations.
ResolverPatches == UNION {[1..n -> ResolverOps] : n \in 0..MaxPatchLen}

\* A document and a patch, before resolveLayerIdsInPatch is applied to them.
InitResolver ==
    /\ InitEngine
    /\ panel = PanelNone
    /\ \E doc \in {StyleFourLayers, StyleTwoLayers, StyleNoLayers}, patch \in ResolverPatches :
          fn = [name |-> "input", style |-> doc, patch |-> patch, out |-> <<>>,
                applied |-> [err |-> "", doc |-> Undefined, newDocument |-> Undefined]]

\* Lines 230 and 236-238: the patch is resolved against the document and applied
\* to a copy of it.
ResolveAndApply ==
    /\ fn.name = "input"
    /\ fn' = With(resolveLayerIdsInPatch(fn.style, fn.patch).patch, LAMBDA out :
                [fn EXCEPT !.name = "resolved", !.out = out,
                           !.applied = applyPatch(fn.style, out)])
    /\ UNCHANGED engine
    /\ UNCHANGED panel

NextResolver == ResolveAndApply

SpecResolver == InitResolver /\ [][NextResolver]_vars

\* --------------------------------- extractPatchArrayFromText applied on its own

\* Values of operations: a string, arrays (an expression, a nested array), and
\* strings that hold brackets: a pair, a closing one, an opening one.
ExtractValues ==
    { Str("#111"),
      Arr(<<Str("get"), Str("name")>>),
      Arr(<<Arr(<<>>), Str("x")>>),
      Txt(<<Ch("["), Ch("w"), Ch("]")>>),
      Txt(<<Ch("w"), Ch("]")>>),
      Txt(<<Ch("["), Ch("w")>>) }

\* The patches of at most MaxPatchLen operations with these values.
ExtractPatches ==
    UNION {[1..n -> {Op("replace", <<"layers", "water", "paint", "fill-color">>, val) :
                        val \in ExtractValues}] : n \in 1..MaxPatchLen}

\* What the model writes before and after the patch: nothing, white space,
\* prose, prose with brackets.
ProseBefore ==
    {<<>>, <<Ch(" ")>>, <<Ch("w"), Ch(" ")>>, <<Ch("["), Ch("w"), Ch("]"), Ch(" ")>>}
ProseAfter ==
    {<<>>, <<Ch(" "), Ch("w")>>, <<Ch(" "), Ch("["), Ch("w"), Ch("]")>>}

\* A reply text that contains a patch array, before the extractor is applied.
InitExtract ==
    /\ InitEngine
    /\ panel = PanelNone
    /\ \E before \in ProseBefore, patch \in ExtractPatches, after \in ProseAfter :
          fn = [name |-> "input", before |-> before, body |-> stringify(Arr(patch)),
                after |-> after,
                raw |-> before \o stringify(Arr(patch)) \o after,
                out |-> [found |-> FALSE, str |-> <<>>]]

\* Line 188: extractPatchArrayFromText(rawText).
Extract ==
    /\ fn.name = "input"
    /\ fn' = [fn EXCEPT !.name = "extracted", !.out = extractPatchArrayFromText(fn.raw)]
    /\ UNCHANGED engine
    /\ UNCHANGED panel

NextExtract == Extract

SpecExtract == InitExtract /\ [][NextExtract]_vars

\* ------------------------------------------------------------- properties

\* C1: the document passed to editStyleWithLLM is deep-equal, at every point of
\* the call and after it, to what it was when the call was made, whatever the
\* remote outcome, the reply and the apply attempts made.
C1_DocumentNeverMutated == style = args.style

\* A call that returned after two apply attempts, the last of which changed its
\* copy of the document.
C1_Witness ==
    /\ pc = "returned"
    /\ Len(heap.log) >= 2
    /\ heap.copy # args.style
    /\ style = args.style

\* C2: when a non-empty patch was applied, or the model returned a full document,
\* the validator is run once, on the document that would be returned; if it
\* reports errors the result is a failure carrying the first of them, and a
\* success carries a document the validator has no error for.
C2_ValidatorGuardsResult ==
    pc = "returned" =>
        /\ ((heap.log # <<>> /\ heap.err = "") \/ (parsed.t = "obj" /\ ~isApiWrapper(parsed)))
              => Len(validated) = 1
        /\ validated # <<>> =>
              LET errs == validateStyleMin(validated[1])
              IN  IF errs # <<>>
                  THEN /\ ~result.ok
                       /\ result.error \in {"Style invalid after patch", "Invalid style"}
                       /\ result.detail = errs[1]
                  ELSE /\ result.ok
                       /\ result.style = validated[1]
        /\ (result.ok /\ result.explanation = Undefined)
              => /\ validated = <<result.style>>
                 /\ validateStyleMin(result.style) = <<>>

\* A call that failed with the first of two errors the validator reported.
C2_Witness ==
    /\ pc = "returned"
    /\ validated # <<>>
    /\ Len(validateStyleMin(validated[1])) >= 2
    /\ ~result.ok
    /\ result.detail = validateStyleMin(validated[1])[1]

\* C3: the document of a success result for a non-empty patch is the outcome of
\* applying every operation of one patch variant the ladder tried (coerced or
\* original) to a fresh copy of the input document, with the id stamped.
C3_AllOrNothing ==
    (pc = "returned" /\ result.ok /\ IsArray(parsed) /\ parsed.v # <<>>) =>
        \E k \in DOMAIN heap.log :
            LET r == applyPatch(args.style, heap.log[k].patch)
            IN  /\ r.err = ""
                /\ result.style = withId(r.newDocument, args.style)

\* C4: for an empty patch array the call returns success with the caller's
\* document and the explanation "No changes requested.", and neither an apply
\* attempt nor the validator runs.
C4_EmptyPatchIsNoChange ==
    (pc = "returned" /\ parsed = Arr(<<>>)) =>
        /\ result = Success(args.style, Str("No changes requested."))
        /\ heap.log = <<>>
        /\ validated = <<>>

\* A call for the style without layers that returned for an empty patch.
C4_Witness ==
    /\ pc = "returned"
    /\ parsed = Arr(<<>>)
    /\ result.ok
    /\ result.style = StyleNoLayers

\* C5: for a patch whose operations all set a paint or layout property of an
\* existing layer the ladder ends in an applied document in which every such
\* property has the value of the last operation that set it; and no patch that
\* applies cleanly as emitted ends in a patch failure.
C5_LadderConverges ==
    LET setsProperty(op) ==
            /\ op.t = "obj"
            /\ Get(op, "op") \in {Str("add"), Str("replace")}
            /\ Get(op, "value") # Undefined
            /\ Get(op, "path").t = "ptr"
            /\ Len(Get(op, "path").v) = 4
            /\ Get(op, "path").v[1] = "layers"
            /\ Get(op, "path").v[3] \in {"paint", "layout"}
            /\ IsArray(Get(args.style, "layers"))
            /\ idToIndex(Get(args.style, "layers"), Get(op, "path").v[2]) # -1
        resolved == resolveLayerIdsInPatch(args.style, parsed.v).patch
        at(doc, path) == Get(Get(Get(Get(doc, path[1]), path[2]), path[3]), path[4])
    IN  (pc = "returned" /\ IsArray(parsed) /\ parsed.v # <<>>
            /\ \A i \in DOMAIN parsed.v : parsed.v[i].t = "obj") =>
            /\ (\A i \in DOMAIN parsed.v : setsProperty(parsed.v[i])) =>
                  /\ heap.log # <<>>
                  /\ heap.err = ""
                  /\ \A i \in DOMAIN resolved :
                        (\A j \in DOMAIN resolved :
                            j > i => Get(resolved[j], "path") # Get(resolved[i], "path"))
                        => at(heap[heap.ref], Get(resolved[i], "path").v)
                              = Get(resolved[i], "value")
            /\ applyPatch(args.style, resolved).err = "" => result.error # "Patch failed"

\* C6: no call throws or rejects: every call ends by returning a result.
C6_NeverRejects == pc # "rejected"

C8_MissingKeyNoRequest ==
    (pc # "idle" /\ ~startsWithSlash(args.apiUrl) /\ ~hasCredential(args.apiKey)) =>
        /\ pc = "returned"
        /\ ~result.ok
        /\ result.error = "Missing API key. Set VITE_ANTHROPIC_API_KEY or, in dev, ANTHROPIC_API_KEY on the server."
        /\ requests = <<>>
        /\ response = NoResponse

\* A call with the direct endpoint and a key of white space that returned.
C8_Witness ==
    /\ pc = "returned"
    /\ args.apiUrl = ANTHROPIC_URL
    /\ args.apiKey = Txt(<<Ch(" ")>>)
    /\ ~result.ok
    /\ requests = <<>>

\* C9 (as stated): every call sends exactly one request.
C9_ExactlyOneRequest == pc \in {"returned", "rejected"} => Len(requests) = 1

\* C9 (amended): a call sends at most one request: none when it returns for a
\* missing key, and exactly one otherwise, whatever apply attempts it makes.
C9_OneRequestUnlessKeyMissing ==
    pc # "idle" =>
        Len(requests) = IF ~startsWithSlash(args.apiUrl) /\ ~hasCredential(args.apiKey)
                        THEN 0 ELSE 1

\* A call that succeeded on its second apply attempt, having sent one request.
C9_Witness ==
    /\ pc = "returned"
    /\ result.ok
    /\ Len(heap.log) = 2
    /\ Len(requests) = 1

C11_RequestKeepsLastSix ==
    requests # <<>> =>
        LET h == args.conversationHistory
            n == Len(h)
            k == IF n < HistoryWindow THEN n ELSE HistoryWindow
            m == requests[1].messages
        IN  /\ Len(m) = k + 1
            /\ \A i \in 1..k : m[i] = h[n - k + i]
            /\ m[k + 1].role = "user"
            /\ m[k + 1].content.said = args.prompt
            /\ m[k + 1].content.json = stringify(args.style)
            /\ \A j \in 1..(n - k) : \A i \in 1..k : m[i] # h[j]

\* A call with the longest history, whose request has seven messages.
C11_Witness ==
    /\ pc = "fetch"
    /\ Len(args.conversationHistory) = MaxHistory
    /\ Len(args.conversationHistory) > HistoryWindow
    /\ Len(requests[1].messages) = HistoryWindow + 1

\* C12 (as stated): every success result carries a document whose id is the id
\* of the input document.
C12_IdIsInputId ==
    (pc = "returned" /\ result.ok) => Get(result.style, "id") = Get(args.style, "id")

\* C12 (amended): the document of a success result has the id of the document
\* the patch or the model produced when that id is truthy, and the input's id
\* otherwise; it is the input's id whenever no operation addresses /id or the
\* root.
C12_IdOwnOrInherited ==
    (pc = "returned" /\ result.ok) =>
        LET produced == IF parsed = Arr(<<>>) THEN args.style
                        ELSE IF IsArray(parsed) THEN heap.copy
                        ELSE parsed
        IN  /\ Get(result.style, "id") =
                    IF Truthy(Get(produced, "id")) THEN Get(produced, "id")
                    ELSE Get(args.style, "id")
            /\ (IsArray(parsed)
                    /\ \A i \in DOMAIN parsed.v :
                           Get(parsed.v[i], "path") \notin {Ptr(<<"id">>), Ptr(<<>>)})
                  => Get(result.style, "id") = Get(args.style, "id")

\* A success for a patch that removed the id, which carries the input's id.
C12_Witness ==
    /\ pc = "returned"
    /\ result.ok
    /\ IsArray(parsed)
    /\ heap.log # <<>>
    /\ Get(heap.copy, "id") = Undefined
    /\ Get(result.style, "id") = Str("s1")

\* C13: the panel never calls editStyleWithLLM with a prompt that is empty after
\* trimming, and a submit or an Enter whose input is empty after trimming starts
\* no edit and changes no panel state.
C13_BlankPromptNeverSent ==
    /\ [](pc # "idle" => \E i \in DOMAIN args.prompt : ~IsSpace(args.prompt[i]))
    /\ [][(/\ panel' # panel
           /\ panel'.event \in {"submit", "keydown"}
           /\ \A i \in DOMAIN panel.input : IsSpace(panel.input[i]))
          => /\ panel' = [panel EXCEPT !.event = panel'.event, !.accepted = FALSE]
             /\ UNCHANGED engine]_vars

\* A submit with an input of white space, which started nothing.
C13_Witness ==
    /\ panel.event = "submit"
    /\ ~panel.accepted
    /\ panel.input = <<Ch(" ")>>
    /\ ~panel.loading
    /\ panel.messages = <<>>
    /\ pc = "idle"

\* C14: a failed edit leaves the document and the conversation history as they
\* were: settling a failure invokes no onStyleChanged, and the prompt submitted
\* again after the failure is sent with the messages it was sent with before.
C14_FailedEditLeavesHistory ==
    [][/\ (panel.loading /\ ~panel'.loading /\ ~result.ok)
            => (panel'.mapStyle = panel.mapStyle /\ panel'.changes = panel.changes)
       /\ (/\ pc = "returned" /\ ~result.ok /\ requests # <<>>
           /\ pc' = "fetch" /\ args'.prompt = args.prompt /\ args'.style = args.style)
            => requests'[1].messages = requests[1].messages]_vars

\* C15: whenever the attempt with the patch as resolved fails, as the first
\* attempt of a patch without add or as the retry of a patch with add, and the
\* patch has a replace, the next attempt applies the patch with every replace
\* turned into add, and the edit fails for the patch only if that attempt fails.
C15_ReplaceToAddAfterOriginalFails ==
    (pc = "returned" /\ IsArray(parsed) /\ parsed.v # <<>>
        /\ \A i \in DOMAIN parsed.v : parsed.v[i].t = "obj") =>
        LET resolved == resolveLayerIdsInPatch(args.style, parsed.v).patch
            hasAdd == \E i \in DOMAIN resolved : Get(resolved[i], "op") = Str("add")
            hasReplace == \E i \in DOMAIN resolved : Get(resolved[i], "op") = Str("replace")
            k == IF hasAdd THEN 2 ELSE 1
        IN  (hasReplace /\ Len(heap.log) >= k /\ heap.log[k].patch = resolved
                /\ heap.log[k].err # "") =>
                /\ Len(heap.log) = k + 1
                /\ heap.log[k + 1].patch = coerce(resolved, "replace", "add")
                /\ (result.error = "Patch failed") = (heap.log[k + 1].err # "")

C17_CoercionIsEquivalent ==
    (pc = "returned" /\ IsArray(parsed) /\ parsed.v # <<>>
        /\ \A i \in DOMAIN parsed.v : parsed.v[i].t = "obj") =>
        LET resolved == resolveLayerIdsInPatch(args.style, parsed.v).patch
            hasAdd == \E i \in DOMAIN resolved : Get(resolved[i], "op") = Str("add")
        IN  (hasAdd /\ Len(heap.log) = 1 /\ heap.log[1].err = "") =>
                /\ applyPatch(args.style, resolved).err = ""
                /\ heap.copy = applyPatch(args.style, resolved).doc

C19_IdsFollowTheLayers ==
    LET n == Len(fn.patch)
        step[k \in 0..n] ==
            IF k = 0 THEN [err |-> "", doc |-> fn.style, newDocument |-> fn.style]
            ELSE IF step[k - 1].err # "" THEN step[k - 1]
            ELSE applyOperation(step[k - 1].doc,
                                resolveOp(Get(step[k - 1].doc, "layers"), fn.patch[k]))
    IN  (/\ fn.name = "resolved"
         /\ IsArray(Get(fn.style, "layers"))
         /\ \A k \in DOMAIN fn.patch :
                \A i \in DOMAIN Get(fn.patch[k], "path").v :
                    Get(fn.patch[k], "path").v[i] # "")
        => /\ fn.applied.err = step[n].err
           /\ step[n].err = "" => fn.applied.doc = step[n].doc

\* C20: resolveLayerIdsInPatch returns as many operations as it is given, in
\* their order; it changes only the path of an operation whose path starts with
\* layers and whose decoded second segment is not a numeral and is the id of a
\* layer, writing the layer's index for the id and keeping every later segment
\* as it is, empty and escaped ones too; every other operation it returns as is.
C20_ResolverOnlyRewritesIds ==
    LET layers == Get(fn.style, "layers")
        segs(op) == Get(op, "path").v
        idOf(op) == IF segs(op)[2] \in DOMAIN EscapedSegments
                    THEN EscapedSegments[segs(op)[2]] ELSE segs(op)[2]
        at(op) == {i \in DOMAIN layers.v : Get(layers.v[i], "id") = Str(idOf(op))}
        named(op) ==
            /\ IsArray(layers)
            /\ Len(segs(op)) >= 2
            /\ segs(op)[1] = "layers"
            /\ \A d \in DOMAIN Numerals : Numerals[d] # idOf(op)
            /\ at(op) # {}
    IN  fn.name = "resolved" =>
            /\ Len(fn.out) = Len(fn.patch)
            /\ \A k \in DOMAIN fn.patch :
                  fn.out[k] =
                    IF named(fn.patch[k])
                    THEN SetKey(fn.patch[k], "path",
                                Ptr(<<"layers", Numerals[CHOOSE i \in at(fn.patch[k]) : TRUE]>>
                                    \o SubSeq(segs(fn.patch[k]), 3, Len(segs(fn.patch[k])))))
                    ELSE fn.patch[k]

\* C21: for a reply text that holds a well-formed patch array, with or without
\* prose around it and whatever its operations' values, the extractor returns
\* the text from the array's opening bracket through its closing bracket.
C21_ExtractsExactlyTheArray ==
    fn.name = "extracted" => (fn.out.found /\ fn.out.str = fn.body)

\* C22 (as stated): when the value parsed from the reply is a provider envelope
\* whose text holds a patch, the patch is extracted from that text and applied.
C22_UnwrapsEnvelopeText ==
    (pc \in {"returned", "rejected"} /\ response.status = 200
        /\ JSONparse(response.body).ok
        /\ result.error # "Invalid JSON response from API") =>
        LET text == getTextFromAnthropicResponse(JSONparse(response.body).val)
            first == extractParsed(text.val.v)
            nested == getTextFromAnthropicResponse(first.val)
            found == extractPatchArrayFromText(nested.val.v)
        IN  (~text.threw /\ Truthy(text.val) /\ first.ok /\ IsObject(first.val)
                /\ isApiWrapper(first.val)
                /\ ~nested.threw /\ Truthy(nested.val)
                /\ found.found /\ JSONparse(found.str).ok) =>
                /\ parsed = JSONparse(found.str).val
                /\ heap.log # <<>>

\* C22 (amended): when the value parsed from the reply is a provider envelope, the call
\* runs the extraction once more, on the text of the envelope's first content
\* block, and goes on with what it finds there (a patch is applied); what it
\* finds is not unwrapped again, even if it is an envelope; an envelope without
\* such a text ends the call with a failure.  (For a call whose res.json()
\* resolved.)
C22_UnwrapsOnce ==
    (pc \in {"returned", "rejected"} /\ response.status = 200
        /\ JSONparse(response.body).ok
        /\ result.error # "Invalid JSON response from API") =>
        LET text == getTextFromAnthropicResponse(JSONparse(response.body).val)
            first == extractParsed(text.val.v)
            blocks == Get(first.val, "content").v
            innerText == IF blocks # <<>> THEN Get(blocks[1], "text") ELSE Undefined
            found == extractPatchArrayFromText(innerText.v)
            inner == IF found.found THEN JSONparse(found.str)
                     ELSE parseJsonFromResponse(innerText.v)
        IN  (~text.threw /\ Truthy(text.val) /\ first.ok /\ IsObject(first.val)
                /\ isApiWrapper(first.val)) =>
                IF ~IsString(innerText)
                THEN /\ pc = "returned"
                     /\ result = Failure("Response was API wrapper; no content found.", "")
                ELSE IF ~inner.ok
                THEN /\ pc = "returned"
                     /\ result = Failure("Could not parse style from nested response.", "")
                ELSE /\ parsed = inner.val
                     /\ (IsArray(parsed) /\ parsed.v # <<>>
                            /\ \A i \in DOMAIN parsed.v : parsed.v[i].t = "obj")
                          => heap.log # <<>>
                     /\ ~IsArray(parsed) => heap.log = <<>>

\* An envelope inside the reply whose text held a patch, which was applied.
C22_Witness ==
    /\ pc = "returned"
    /\ result.ok
    /\ IsArray(parsed)
    /\ heap.log # <<>>
    /\ LET text == getTextFromAnthropicResponse(JSONparse(response.body).val)
       IN  isApiWrapper(extractParsed(text.val.v).val)

\* C23: when the payload the call ends up with is a JSON object, no patch is
\* attempted; the object is given the input document's id if it has none, handed
\* to the validator, and returned as the document of a success if the validator
\* reports nothing, and the call fails with the validator's first error otherwise.
C23_ObjectIsReplacementDocument ==
    (/\ pc = "returned"
     /\ parsed.t = "obj"
     /\ result.error \notin {"Response was API wrapper; no content found.",
                              "Could not parse style from nested response."}) =>
        LET stamped == IF Truthy(Get(parsed, "id")) THEN parsed
                       ELSE SetKey(parsed, "id", Get(args.style, "id"))
            errs == validateStyleMin(stamped)
        IN  /\ heap.log = <<>>
            /\ validated = <<stamped>>
            /\ IF errs = <<>>
               THEN result = Success(stamped, Undefined)
               ELSE result = Failure("Invalid style", errs[1])

\* A replacement document without an id, returned with the input's id.
C23_Witness ==
    /\ pc = "returned"
    /\ parsed = StyleFromModel
    /\ result.ok
    /\ result.style = SetKey(StyleFromModel, "id", Str("s1"))
    /\ heap.log = <<>>

\* C24: the panel has at most one edit in flight: at most one call of
\* editStyleWithLLM has not come back, and a submit or an Enter that arrives
\* while an edit has not completed starts no call.
C24_OneEditInFlight ==
    /\ [](panel.pending <= 1)
    /\ [][(/\ panel' # panel
           /\ panel'.event \in {"submit", "keydown"}
           /\ panel.loading \/ panel.pending > 0 \/ pc \in {"fetch", "text", "json"})
          => /\ UNCHANGED engine
             /\ panel'.pending = panel.pending
             /\ panel'.messages = panel.messages]_vars

\* A submit that arrived while the request of an edit was under way, and was
\* not accepted.
C24_Witness ==
    /\ panel.event = "submit"
    /\ ~panel.accepted
    /\ panel.loading
    /\ panel.pending = 1
    /\ pc = "fetch"

\* C25: the document handed to onStyleChanged for a successful edit keeps the
\* changes made to the map style elsewhere while the request was in flight: a
\* layer the current style has and the patch does not address is in it.
C25_KeepsChangesMadeElsewhere ==
    [][(/\ panel.loading /\ ~panel'.loading /\ result.ok
        /\ panel.mapStyle = editedElsewhere(args.style))
       => /\ IsArray(Get(panel'.mapStyle, "layers"))
          /\ \E i \in DOMAIN Get(panel'.mapStyle, "layers").v :
                Get(Get(panel'.mapStyle, "layers").v[i], "id") = Str("road")]_vars

\* C26: every accepted submit eventually completes: the loading indicator
\* becomes false again, and the step that clears it appends exactly one
\* assistant message, whatever the outcome of the call.
C26_AcceptedSubmitCompletes ==
    /\ panel.loading ~> ~panel.loading
    /\ [][(panel.loading /\ ~panel'.loading)
          => /\ Len(panel'.messages) = Len(panel.messages) + 1
             /\ panel'.messages[Len(panel'.messages)].role = "assistant"]_vars

\* C27: for every POST the proxy accepts and every interleaving of body chunks,
\* end and error events, the body timeout, the upstream response and the
\* upstream timeout: at most one response is written to the client, no upstream
\* request is sent once the body timeout or a stream error has fired, and a
\* response (with the upstream status, 408, 500, 502 or 504) is eventually
\* written.
C27_ProxyAnswersExactlyOnce ==
    /\ [](px.writes <= 1)
    /\ [](px.sent # NoResponse
            => px.sent.status \in {408, 500, 502, 504}
                                   \cup {r.status : r \in ProviderResponses})
    /\ [][(px.bodyTimeout = "fired" \/ px.req \in {"errored", "destroyed"})
          => px'.upstreamRequests = px.upstreamRequests]_vars
    /\ (pc = "fetch" /\ useProxy) ~> (px.sent # NoResponse)

====
